---- MODULE Spec2Model ----
(***************************************************************************)
(* A model of the datalog crate's evaluation engine: the name pools, the   *)
(* Binding, the Counter that enumerates candidate bindings, Goal, Rule and *)
(* Query, and the DataSet with its program(), run() and query() methods.   *)
(* Ids are 0-based as in the Rust code; TLA+ sequences are 1-based, so an  *)
(* id n is the element n + 1 of the sequence that models a Vec.            *)
(***************************************************************************)
EXTENDS Integers, Sequences, FiniteSets, TLC

\* ------------------------------------------------------------------------
\* Bounds of the model
\* ------------------------------------------------------------------------
MaxArity == 1
MaxBody == 1
MaxGoals == 1
MaxFacts == 2
MaxRules == 1
MaxRuns == 2
MaxQueries == 1
\* add_name calls on the NamePool that is exercised on its own.
MaxCalls == 4
\* Counter::new(length, max) on the Counter that is exercised on its own.
MaxLength == 3
MaxMax == 4
\* Calls of next() that return None.
MaxNones == 2

\* ------------------------------------------------------------------------
\* The syntax tree the engine consumes (parser.rs)
\* ------------------------------------------------------------------------
RelationSyntax == {"p", "q"}
Const == {"a", "b"}
Var == {"X", "Y"}

SeqsUpTo(S, n) == UNION {[1..k -> S] : k \in 0..n}

TermSyntax == [kind : {"Const"}, name : Const] \cup [kind : {"Var"}, name : Var]

\* The atoms and the facts of at most n terms.
AtomOf(n) == [rel : RelationSyntax, terms : SeqsUpTo(TermSyntax, n)]

FactOf(n) == [rel : RelationSyntax, consts : SeqsUpTo(Const, n)]

Atom == AtomOf(MaxArity)

Fact == FactOf(MaxArity)

RuleSyntax == [head : Atom, clauses : SeqsUpTo(Atom, MaxBody)]

QuerySyntax == SeqsUpTo(Atom, MaxGoals)

Statement == [kind : {"Fact"}, fact : Fact] \cup [kind : {"Rule"}, rule : RuleSyntax]

\* ------------------------------------------------------------------------
\* NamePool (name_pool.rs)
\* ------------------------------------------------------------------------
\* The position of the first element of vec equal to x, as a 0-based index.
Position(vec, x) ==
    (CHOOSE k \in 1..Len(vec) : vec[k] = x /\ \A j \in 1..(k - 1) : vec[j] # x) - 1

Contains(vec, x) == \E k \in 1..Len(vec) : vec[k] = x

\* add_name pushing the name without looking for it first.
add_name_push(names, name) ==
    [pool |-> Append(names, name), id |-> Len(names)]

add_name(names, name) ==
    IF Contains(names, name)
    THEN [pool |-> names, id |-> Position(names, name)]
    ELSE [pool |-> Append(names, name), id |-> Len(names)]

\* ------------------------------------------------------------------------
\* Binding (binding.rs)
\* ------------------------------------------------------------------------
\* Binding::insert pushing the value without looking for it first.
BindingInsertPush(binding, value) ==
    [binding |-> Append(binding, value), k |-> Len(binding)]

BindingInsert(binding, value) ==
    IF Contains(binding, value)
    THEN [binding |-> binding, k |-> Position(binding, value)]
    ELSE [binding |-> Append(binding, value), k |-> Len(binding)]

\* ------------------------------------------------------------------------
\* Counter (counter.rs)
\* ------------------------------------------------------------------------
RECURSIVE Pow(_, _)
Pow(b, e) == IF e = 0 THEN 1 ELSE b * Pow(b, e - 1)

\* Counter::new with the end at max * length.
CounterNewTimes(length, max) ==
    [length |-> length, max |-> max, cursor |-> 0, end |-> max * length]

CounterNew(length, max) ==
    [length |-> length, max |-> max, cursor |-> 0, end |-> Pow(max, length + 1)]

CounterIsEmpty(c) == (c.cursor = c.end) \/ c.length = 0

\* next() with slot 0 as the slowest digit.
CounterNextReversed(c) ==
    IF CounterIsEmpty(c)
    THEN [some |-> FALSE, buf |-> <<>>, counter |-> c]
    ELSE [some |-> TRUE,
          buf |-> [k \in 1..c.length |-> (c.cursor \div Pow(c.max, c.length - k)) % c.max],
          counter |-> [c EXCEPT !.cursor = @ + 1]]

\* next(): None is [some |-> FALSE]; Some(buf) carries the advanced counter.
CounterNext(c) ==
    IF CounterIsEmpty(c)
    THEN [some |-> FALSE, buf |-> <<>>, counter |-> c]
    ELSE [some |-> TRUE,
          buf |-> [k \in 1..c.length |-> (c.cursor \div Pow(c.max, k - 1)) % c.max],
          counter |-> [c EXCEPT !.cursor = @ + 1]]

\* The sequence of vectors a `for` loop over the counter visits. The result
\* n of next() is bound through a singleton set, so that it is evaluated once
\* per iteration.
RECURSIVE CounterItems(_)
CounterItems(c) ==
    CHOOSE items \in {IF n.some THEN <<n.buf>> \o CounterItems(n.counter) ELSE <<>> :
                         n \in {CounterNext(c)}} : TRUE

\* ------------------------------------------------------------------------
\* Tuple, Set<T> (data_set.rs)
\* ------------------------------------------------------------------------
\* The derived Ord of Vec<usize>: lexicographic, a proper prefix is smaller.
RECURSIVE VecLess(_, _)
VecLess(u, v) ==
    IF u = <<>> THEN v # <<>>
    ELSE IF v = <<>> THEN FALSE
    ELSE IF Head(u) # Head(v) THEN Head(u) < Head(v)
    ELSE VecLess(Tail(u), Tail(v))

\* The order in which a BTreeSet of vectors is iterated.
RECURSIVE SetIter(_)
SetIter(S) ==
    IF S = {} THEN <<>>
    ELSE LET m == CHOOSE x \in S : \A y \in S \ {x} : VecLess(x, y)
         IN <<m>> \o SetIter(S \ {m})

Range(vec) == {vec[k] : k \in 1..Len(vec)}

\* ------------------------------------------------------------------------
\* DataSet helpers (data_set.rs); d is the DataSet as a record of its fields
\* ------------------------------------------------------------------------
RECURSIVE SumLen(_)
SumLen(rels) == IF rels = <<>> THEN 0 ELSE Cardinality(Head(rels)) + SumLen(Tail(rels))

len(d) == SumLen(d.relations)

\* is_dirty testing <= where the code tests !=.
is_dirty_le(d) == d.last_len <= len(d)

\* is_dirty true only as long as no length was recorded yet.
is_dirty_once(d) == d.last_len = 0 /\ len(d) # 0

is_dirty(d) == d.last_len # len(d)

constants_count(d) == Len(d.constant_names)

\* declare_relation pushing a relation on every call.
declare_relation_always(d, name) ==
    LET r == add_name(d.relation_names, name)
        withName == [d EXCEPT !.relation_names = r.pool]
    IN [data |-> [withName EXCEPT !.relations = Append(@, {})],
        rel |-> r.id]

declare_relation(d, name) ==
    LET r == add_name(d.relation_names, name)
        withName == [d EXCEPT !.relation_names = r.pool]
    IN [data |-> IF r.id = Len(d.relations)
                 THEN [withName EXCEPT !.relations = Append(@, {})]
                 ELSE withName,
        rel |-> r.id]

\* ------------------------------------------------------------------------
\* Goal (data_set/goal.rs)
\* ------------------------------------------------------------------------
\* The closure of Goal::new applied to one term; st carries the terms built
\* so far, the enclosing Binding and the DataSet.
GoalNewTerm(st, t) ==
    IF t.kind = "Const"
    THEN LET c == add_name(st.data.constant_names, t.name)
         IN [st EXCEPT !.terms = Append(@, [kind |-> "Constant", id |-> c.id]),
                       !.data.constant_names = c.pool]
    ELSE LET n == add_name(st.data.variable_names, t.name)
             v == BindingInsert(st.variables, n.id)
         IN [st EXCEPT !.terms = Append(@, [kind |-> "Variable", id |-> v.k]),
                       !.data.variable_names = n.pool,
                       !.variables = v.binding]

RECURSIVE GoalNewTerms(_, _)
GoalNewTerms(st, ts) ==
    IF ts = <<>> THEN st ELSE GoalNewTerms(GoalNewTerm(st, Head(ts)), Tail(ts))

GoalNew(atom, variables, d) ==
    LET dr == declare_relation(d, atom.rel)
        st == GoalNewTerms([terms |-> <<>>, variables |-> variables, data |-> dr.data],
                           atom.terms)
    IN [goal |-> [relation |-> dr.rel, terms |-> st.terms],
        variables |-> st.variables,
        data |-> st.data]

make_tuple(goal, binding) ==
    [k \in 1..Len(goal.terms) |->
        IF goal.terms[k].kind = "Constant"
        THEN goal.terms[k].id
        ELSE binding[goal.terms[k].id + 1]]

\* is_satisfied_by comparing term by term up to the shorter of the goal and
\* the stored tuple.
is_satisfied_by_zip(goal, binding, d) ==
    \E t \in d.relations[goal.relation + 1] :
        \A k \in 1..(IF Len(t) < Len(goal.terms) THEN Len(t) ELSE Len(goal.terms)) :
            t[k] = make_tuple(goal, binding)[k]

\* is_satisfied_by looking the tuple up in every relation.
is_satisfied_by_anywhere(goal, binding, d) ==
    \E r \in 1..Len(d.relations) : make_tuple(goal, binding) \in d.relations[r]

is_satisfied_by(goal, binding, d) ==
    make_tuple(goal, binding) \in d.relations[goal.relation + 1]

\* The map over the atoms in Rule::new and Query::new.
RECURSIVE GoalsNew(_, _)
GoalsNew(st, atoms) ==
    IF atoms = <<>> THEN st
    ELSE LET g == GoalNew(Head(atoms), st.variables, st.data)
         IN GoalsNew([goals |-> Append(st.goals, g.goal),
                      variables |-> g.variables,
                      data |-> g.data],
                     Tail(atoms))

\* ------------------------------------------------------------------------
\* Query (data_set/query.rs) and Answer (data_set/answer.rs)
\* ------------------------------------------------------------------------
\* satisfies_all returning true as soon as one goal is satisfied.
satisfies_any(vars, goals, d) ==
    \E k \in 1..Len(goals) : is_satisfied_by(goals[k], vars, d)

satisfies_all(vars, goals, d) ==
    \A k \in 1..Len(goals) : is_satisfied_by(goals[k], vars, d)

QueryNew(clauses, d) ==
    LET st == GoalsNew([goals |-> <<>>, variables |-> <<>>, data |-> d], clauses)
    IN [query |-> [variables |-> st.variables, sub_goals |-> st.goals],
        data |-> st.data]

\* Query::bindings collecting into a Vec instead of a Set.
QueryBindingsVec(q, d) ==
    LET cands == CounterItems(CounterNew(Len(q.variables), constants_count(d)))
    IN SelectSeq(cands, LAMBDA b : satisfies_all(b, q.sub_goals, d))

\* The Set<Binding> that Query::bindings returns, as the sequence its
\* iterator yields.
QueryBindings(q, d) ==
    LET cands == CounterItems(CounterNew(Len(q.variables), constants_count(d)))
    IN SetIter({b \in Range(cands) : satisfies_all(b, q.sub_goals, d)})

AnswerNew(binding, variables, d) ==
    {<<d.variable_names[variables[v] + 1], d.constant_names[binding[v] + 1]>> :
        v \in 1..Len(binding)}

search(d, q) ==
    LET bs == QueryBindings(q, d)
    IN [k \in 1..Len(bs) |-> AnswerNew(bs[k], q.variables, d)]

\* ------------------------------------------------------------------------
\* Rule (data_set/rule.rs)
\* ------------------------------------------------------------------------
\* Rule::new compiling the body before the head.
RuleNewBodyFirst(head, clauses, d) ==
    LET st == GoalsNew([goals |-> <<>>, variables |-> <<>>, data |-> d], clauses)
        g == GoalNew(head, st.variables, st.data)
    IN [rule |-> [goal |-> g.goal, sub_goals |-> st.goals, variables |-> g.variables],
        data |-> g.data]

\* Rule::new compiling the body with a Binding of its own and keeping that
\* one as the rule's variables.
RuleNewOwnBinding(head, clauses, d) ==
    LET g == GoalNew(head, <<>>, d)
        st == GoalsNew([goals |-> <<>>, variables |-> <<>>, data |-> g.data], clauses)
    IN [rule |-> [goal |-> g.goal, sub_goals |-> st.goals, variables |-> st.variables],
        data |-> st.data]

RuleNew(head, clauses, d) ==
    LET g == GoalNew(head, <<>>, d)
        st == GoalsNew([goals |-> <<>>, variables |-> g.variables, data |-> g.data],
                       clauses)
    IN [rule |-> [goal |-> g.goal, sub_goals |-> st.goals, variables |-> st.variables],
        data |-> st.data]

\* Rule::step without the filter on the body goals.
RuleStepUnfiltered(rule, d) ==
    LET cands == CounterItems(CounterNew(Len(rule.variables), constants_count(d)))
    IN {make_tuple(rule.goal, b) : b \in Range(cands)}

\* Rule::step leaving out the tuples the head relation holds already.
RuleStepFresh(rule, d) ==
    LET cands == CounterItems(CounterNew(Len(rule.variables), constants_count(d)))
    IN {make_tuple(rule.goal, b) :
            b \in {c \in Range(cands) : satisfies_all(c, rule.sub_goals, d)}}
       \ d.relations[rule.goal.relation + 1]

RuleStep(rule, d) ==
    LET cands == CounterItems(CounterNew(Len(rule.variables), constants_count(d)))
    IN {make_tuple(rule.goal, b) :
            b \in {c \in Range(cands) : satisfies_all(c, rule.sub_goals, d)}}

RuleRelation(rule) == rule.goal.relation

\* ------------------------------------------------------------------------
\* DataSet: syntax helpers (data_set.rs)
\* ------------------------------------------------------------------------
RECURSIVE FactTuple(_, _)
\* The map over the constants in DataSet::fact: [tuple, pool] after interning.
FactTuple(st, consts) ==
    IF consts = <<>> THEN st
    ELSE LET c == add_name(st.pool, Head(consts))
         IN FactTuple([tuple |-> Append(st.tuple, c.id), pool |-> c.pool], Tail(consts))

fact(d, f) ==
    LET t == FactTuple([tuple |-> <<>>, pool |-> d.constant_names], f.consts)
        dr == declare_relation([d EXCEPT !.constant_names = t.pool], f.rel)
    IN [dr.data EXCEPT !.relations[dr.rel + 1] = @ \cup {t.tuple}]

rule(d, r) ==
    LET n == RuleNew(r.head, r.clauses, d)
    IN [n.data EXCEPT !.rules = Append(@, n.rule)]

\* The loop of DataSet::step going through the rules from the last to the
\* first.
step_rule_reverse(d, idx) ==
    LET r == d.rules[Len(d.rules) - idx]
        new_facts == RuleStep(r, d)
    IN [d EXCEPT !.relations[RuleRelation(r) + 1] = @ \cup new_facts]

\* The loop body of DataSet::step assigning the new facts to the head
\* relation instead of extending it.
step_rule_assign(d, idx) ==
    LET r == d.rules[idx + 1]
        new_facts == RuleStep(r, d)
    IN [d EXCEPT !.relations[RuleRelation(r) + 1] = new_facts]

\* One iteration of the loop of DataSet::step: the rule with index idx.
step_rule(d, idx) ==
    LET r == d.rules[idx + 1]
        new_facts == RuleStep(r, d)
    IN [d EXCEPT !.relations[RuleRelation(r) + 1] = @ \cup new_facts]

\* query() taking a step of the first rule before it searches.
query_stepping(d, qs) ==
    LET n == QueryNew(qs, IF d.rules # <<>> THEN step_rule(d, 0) ELSE d)
    IN [data |-> n.data, answers |-> search(n.data, n.query)]

query(d, qs) ==
    LET n == QueryNew(qs, d)
    IN [data |-> n.data, answers |-> search(n.data, n.query)]

\* ------------------------------------------------------------------------
\* State
\* ------------------------------------------------------------------------
VARIABLES
    last_len,        \* DataSet.last_len
    rules,           \* DataSet.rules
    relation_names,  \* DataSet.relation_names.names
    constant_names,  \* DataSet.constant_names.names
    variable_names,  \* DataSet.variable_names.names
    relations,       \* DataSet.relations
    pc,              \* where the caller is: "idle", or inside program() / run()
    i,               \* the loop index of DataSet::step
    answers,         \* the Vec<Answer> the last query() returned
    statements,      \* history: every statement ingested so far, in order
    asked,           \* history: the argument of the last query()
    last,            \* history: the last call that returned
    runs,            \* history: the number of calls of run()
    queries,         \* history: the number of calls of query()
    pool,            \* a NamePool on its own: NamePool.names
    id,              \* the id the last add_name on pool returned
    interned,        \* history: the arguments of the add_name calls on pool
    counter,         \* a Counter on its own: length, max, cursor, end
    produced,        \* history: the vectors next() returned on counter
    nones            \* history: the number of times next() returned None

vars == <<last_len, rules, relation_names, constant_names, variable_names, relations,
          pc, i, answers, statements, asked, last, runs, queries,
          pool, id, interned, counter, produced, nones>>

\* The NamePool and the Counter that are exercised on their own.
units == <<pool, id, interned, counter, produced, nones>>

\* The DataSet and the history of the calls on it.
dataset == <<last_len, rules, relation_names, constant_names, variable_names, relations,
             pc, i, answers, statements, asked, last, runs, queries>>

\* The DataSet as the record the operators above work on.
DataSet ==
    [last_len |-> last_len, rules |-> rules, relation_names |-> relation_names,
     constant_names |-> constant_names, variable_names |-> variable_names,
     relations |-> relations]

\* The DataSet after the step becomes d.
Becomes(d) ==
    /\ last_len' = d.last_len
    /\ rules' = d.rules
    /\ relation_names' = d.relation_names
    /\ constant_names' = d.constant_names
    /\ variable_names' = d.variable_names
    /\ relations' = d.relations

\* DataSet::default(), with no call made yet.
DataSetDefault ==
    /\ last_len = 0
    /\ rules = <<>>
    /\ relation_names = <<>>
    /\ constant_names = <<>>
    /\ variable_names = <<>>
    /\ relations = <<>>
    /\ pc = "idle"
    /\ i = 0
    /\ answers = <<>>
    /\ statements = <<>>
    /\ asked = <<>>
    /\ last = "none"
    /\ runs = 0
    /\ queries = 0

\* NamePool::default()
PoolDefault ==
    /\ pool = <<>>
    /\ id = 0
    /\ interned = <<>>

Init ==
    /\ DataSetDefault
    /\ PoolDefault
    /\ counter = CounterNew(0, 0)
    /\ produced = <<>>
    /\ nones = 0

\* The engine only ever compares names for equality, so every run is a
\* renaming of a run that meets each name for the first time in the order
\* below; the inputs are restricted to those runs.
RelationOrder == <<"p", "q", "r">>
ConstOrder == <<"a", "b">>
VarOrder == <<"X", "Y">>

IsPrefix(u, v) == Len(u) <= Len(v) /\ \A k \in 1..Len(u) : u[k] = v[k]

InOrder(d) ==
    /\ IsPrefix(d.relation_names, RelationOrder)
    /\ IsPrefix(d.constant_names, ConstOrder)
    /\ IsPrefix(d.variable_names, VarOrder)

FactCount == Cardinality({k \in 1..Len(statements) : statements[k].kind = "Fact"})

\* ------------------------------------------------------------------------
\* program(): the loop over the statements of the Program, one per step
\* ------------------------------------------------------------------------
ProgramCall ==
    /\ pc = "idle"
    /\ pc' = "program"
    /\ answers' = <<>>
    /\ asked' = <<>>
    /\ UNCHANGED units
    /\ UNCHANGED <<last_len, rules, relation_names, constant_names, variable_names,
                   relations, i, statements, last, runs, queries>>

ProgramFact(f) ==
    /\ pc = "program"
    /\ FactCount < MaxFacts
    /\ InOrder(fact(DataSet, f))
    /\ Becomes(fact(DataSet, f))
    /\ statements' = Append(statements, [kind |-> "Fact", fact |-> f])
    /\ UNCHANGED units
    /\ UNCHANGED <<pc, i, answers, asked, last, runs, queries>>

\* The statement is a rule; the program has at most limit rules.
ProgramRuleOf(r, limit) ==
    /\ pc = "program"
    /\ Len(rules) < limit
    /\ InOrder(rule(DataSet, r))
    /\ Becomes(rule(DataSet, r))
    /\ statements' = Append(statements, [kind |-> "Rule", rule |-> r])
    /\ UNCHANGED units
    /\ UNCHANGED <<pc, i, answers, asked, last, runs, queries>>

ProgramRule(r) == ProgramRuleOf(r, MaxRules)

ProgramReturn ==
    /\ pc = "program"
    /\ pc' = "idle"
    /\ last' = "program"
    /\ UNCHANGED units
    /\ UNCHANGED <<last_len, rules, relation_names, constant_names, variable_names,
                   relations, i, answers, statements, asked, runs, queries>>

\* ------------------------------------------------------------------------
\* run(): while self.is_dirty() { self.last_len = self.len(); self.step(); }
\* ------------------------------------------------------------------------
RunCall ==
    /\ pc = "idle"
    /\ runs < MaxRuns
    /\ pc' = "run"
    /\ runs' = runs + 1
    /\ answers' = <<>>
    /\ asked' = <<>>
    /\ UNCHANGED units
    /\ UNCHANGED <<last_len, rules, relation_names, constant_names, variable_names,
                   relations, i, statements, last, queries>>

\* run() as a loop that tests is_dirty() only after its body.
RunPassFirst ==
    /\ pc = "run"
    /\ last_len' = len(DataSet)
    /\ i' = 0
    /\ pc' = "step"
    /\ UNCHANGED units
    /\ UNCHANGED <<rules, relation_names, constant_names, variable_names, relations,
                   answers, statements, asked, last, runs, queries>>

\* The loop test holds: record the length and enter step().
RunPass ==
    /\ pc = "run"
    /\ is_dirty(DataSet)
    /\ last_len' = len(DataSet)
    /\ i' = 0
    /\ pc' = "step"
    /\ UNCHANGED units
    /\ UNCHANGED <<rules, relation_names, constant_names, variable_names, relations,
                   answers, statements, asked, last, runs, queries>>

\* One iteration of `for i in 0..self.rules.len()` in step().
StepRule ==
    /\ pc = "step"
    /\ i < Len(rules)
    /\ Becomes(step_rule(DataSet, i))
    /\ i' = i + 1
    /\ UNCHANGED units
    /\ UNCHANGED <<pc, answers, statements, asked, last, runs, queries>>

\* run() recording the length after step() instead of before it.
StepReturnRecording ==
    /\ pc = "step"
    /\ i = Len(rules)
    /\ pc' = "run"
    /\ last_len' = len(DataSet)
    /\ UNCHANGED units
    /\ UNCHANGED <<rules, relation_names, constant_names, variable_names,
                   relations, i, answers, statements, asked, last, runs, queries>>

\* step() returns to the loop test of run().
StepReturn ==
    /\ pc = "step"
    /\ i = Len(rules)
    /\ pc' = "run"
    /\ UNCHANGED units
    /\ UNCHANGED <<last_len, rules, relation_names, constant_names, variable_names,
                   relations, i, answers, statements, asked, last, runs, queries>>

\* The loop test fails: run() returns.
RunReturn ==
    /\ pc = "run"
    /\ ~is_dirty(DataSet)
    /\ pc' = "idle"
    /\ last' = "run"
    /\ UNCHANGED units
    /\ UNCHANGED <<last_len, rules, relation_names, constant_names, variable_names,
                   relations, i, answers, statements, asked, runs, queries>>

\* ------------------------------------------------------------------------
\* query()
\* ------------------------------------------------------------------------
QueryCall(qs) ==
    /\ pc = "idle"
    /\ queries < MaxQueries
    /\ LET r == query(DataSet, qs)
       IN /\ InOrder(r.data)
          /\ Becomes(r.data)
          /\ answers' = r.answers
    /\ asked' = qs
    /\ last' = "query"
    /\ queries' = queries + 1
    /\ UNCHANGED units
    /\ UNCHANGED <<pc, i, statements, runs>>

Next ==
    \/ ProgramCall
    \/ \E f \in Fact : ProgramFact(f)
    \/ \E r \in RuleSyntax : ProgramRule(r)
    \/ ProgramReturn
    \/ RunCall
    \/ RunPass
    \/ StepRule
    \/ StepReturn
    \/ RunReturn
    \/ \E qs \in QuerySyntax : QueryCall(qs)

Spec == Init /\ [][Next]_vars

\* Facts and queries only, with one more term per atom and one more goal per
\* query than in Spec.
QueryNext ==
    \/ ProgramCall
    \/ \E f \in FactOf(MaxArity + 1) : ProgramFact(f)
    \/ ProgramReturn
    \/ \E qs \in SeqsUpTo(AtomOf(MaxArity + 1), MaxGoals + 1) : QueryCall(qs)

QuerySpec == Init /\ [][QueryNext]_vars

\* Facts and rules only, with one more term per atom than in Spec.
RuleNext ==
    \/ ProgramCall
    \/ \E f \in FactOf(MaxArity + 1) : ProgramFact(f)
    \/ \E r \in [head : AtomOf(MaxArity + 1),
                 clauses : SeqsUpTo(AtomOf(MaxArity + 1), MaxBody)] : ProgramRule(r)
    \/ ProgramReturn

RuleSpec == Init /\ [][RuleNext]_vars

\* Programs of up to MaxRules + 1 rules over three relation names, every atom
\* with one term, and run().
ChainRelation == {"p", "q", "r"}

ChainAtom == [rel : ChainRelation,
              terms : {<<t>> : t \in {[kind |-> "Var", name |-> "X"],
                                      [kind |-> "Const", name |-> "a"]}}]

ChainNext ==
    \/ ProgramCall
    \/ \E f \in [rel : ChainRelation, consts : {<<c>> : c \in Const}] : ProgramFact(f)
    \/ \E r \in [head : ChainAtom, clauses : SeqsUpTo(ChainAtom, MaxBody)] :
          ProgramRuleOf(r, MaxRules + 1)
    \/ ProgramReturn
    \/ RunCall
    \/ RunPass
    \/ StepRule
    \/ StepReturn
    \/ RunReturn

ChainSpec == Init /\ [][ChainNext]_vars

\* ------------------------------------------------------------------------
\* A NamePool on its own: any sequence of add_name calls
\* ------------------------------------------------------------------------
AddName(name) ==
    /\ Len(interned) < MaxCalls
    /\ LET r == add_name(pool, name)
       IN /\ pool' = r.pool
          /\ id' = r.id
    /\ interned' = Append(interned, name)
    /\ UNCHANGED <<dataset, counter, produced, nones>>

PoolNext == \E name \in Const \cup Var : AddName(name)

PoolSpec == Init /\ [][PoolNext]_vars

\* ------------------------------------------------------------------------
\* A Counter on its own: Counter::new(length, max), then next() until None
\* ------------------------------------------------------------------------
CounterInit ==
    /\ DataSetDefault
    /\ PoolDefault
    /\ \E length \in 0..MaxLength, max \in 0..MaxMax : counter = CounterNew(length, max)
    /\ produced = <<>>
    /\ nones = 0

\* next() returns Some(buf).
CounterSome ==
    /\ CounterNext(counter).some
    /\ counter' = CounterNext(counter).counter
    /\ produced' = Append(produced, CounterNext(counter).buf)
    /\ UNCHANGED <<dataset, pool, id, interned, nones>>

\* next() returns None.
CounterNone ==
    /\ ~CounterNext(counter).some
    /\ nones < MaxNones
    /\ counter' = CounterNext(counter).counter
    /\ nones' = nones + 1
    /\ UNCHANGED <<dataset, pool, id, interned, produced>>

CounterCalls == CounterSome \/ CounterNone

CounterSpec == CounterInit /\ [][CounterCalls]_vars

\* run() is a sequential loop: once called it keeps executing.
FairSpec == Spec /\ WF_vars(RunPass \/ StepRule \/ StepReturn \/ RunReturn)

\* ------------------------------------------------------------------------
\* The fact base read as named facts, as Display for DataSet prints it:
\* the relation's name applied to the constants' names.
\* ------------------------------------------------------------------------
Display ==
    UNION {{<<relation_names[r], [k \in 1..Len(t) |-> constant_names[t[k] + 1]]>> :
                t \in relations[r]} : r \in 1..Len(relations)}

\* ------------------------------------------------------------------------
\* Reference semantics, on the syntax: what the program means
\* ------------------------------------------------------------------------
AtomVars(atom) ==
    {atom.terms[k].name : k \in {j \in 1..Len(atom.terms) : atom.terms[j].kind = "Var"}}

AtomConsts(atom) ==
    {atom.terms[k].name : k \in {j \in 1..Len(atom.terms) : atom.terms[j].kind = "Const"}}

AtomsVars(atoms) == UNION {AtomVars(atoms[k]) : k \in 1..Len(atoms)}

\* The named fact an atom stands for under an assignment f of constant names
\* to its variables.
Ground(atom, f) ==
    <<atom.rel,
      [k \in 1..Len(atom.terms) |->
          IF atom.terms[k].kind = "Const" THEN atom.terms[k].name
          ELSE f[atom.terms[k].name]]>>

ProgramFacts ==
    {<<statements[k].fact.rel, statements[k].fact.consts>> :
        k \in {j \in 1..Len(statements) : statements[j].kind = "Fact"}}

ProgramRules ==
    {statements[k].rule : k \in {j \in 1..Len(statements) : statements[j].kind = "Rule"}}

\* Every named fact one application of rule r to the named facts F derives,
\* its variables ranging over the constant names C.
Consequences(r, F, C) ==
    {Ground(r.head, f) :
        f \in {g \in [AtomVars(r.head) \cup AtomsVars(r.clauses) -> C] :
                  \A k \in 1..Len(r.clauses) : Ground(r.clauses[k], g) \in F}}

RECURSIVE LeastFixpoint(_, _, _)
LeastFixpoint(F, R, C) ==
    LET G == F \cup UNION {Consequences(r, F, C) : r \in R}
    IN IF G = F THEN F ELSE LeastFixpoint(G, R, C)

\* The assignments of interned constants to the variables of a query that
\* make every goal one of the named facts F.
SatisfyingIn(qs, F) ==
    {f \in [AtomsVars(qs) -> Range(constant_names)] :
        \A k \in 1..Len(qs) : Ground(qs[k], f) \in F}

Satisfying(qs) == SatisfyingIn(qs, Display)

\* The Answer that renders an assignment.
Rendered(f) == {<<v, f[v]>> : v \in DOMAIN f}

\* No step of an ingested rule yields a tuple its head relation lacks.
Saturated ==
    \A k \in 1..Len(rules) :
        RuleStep(rules[k], DataSet) \subseteq relations[RuleRelation(rules[k]) + 1]

RunReturned == pc = "idle" /\ last = "run"

QueryReturned == pc = "idle" /\ last = "query"

\* ------------------------------------------------------------------------
\* C1: after program() into an empty DataSet and then run(), the fact base
\* is exactly the least fixpoint of the ingested facts under the ingested
\* rules, variables ranging over the interned constants.
\* ------------------------------------------------------------------------
C1_LeastFixpoint ==
    (RunReturned /\ runs = 1 /\ queries = 0)
        => Display = LeastFixpoint(ProgramFacts, ProgramRules, Range(constant_names))

\* ------------------------------------------------------------------------
\* C2: whenever run() returns, the fact base is saturated.
\* ------------------------------------------------------------------------
C2_SaturatedOnReturn == RunReturned => Saturated

\* ------------------------------------------------------------------------
\* C4: a query without variables and with at least one goal returns a
\* non-empty answer list exactly when every goal is in the fact base.
\* ------------------------------------------------------------------------
C4_GroundQuery ==
    (QueryReturned /\ asked # <<>> /\ AtomsVars(asked) = {})
        => (answers # <<>> <=> Satisfying(asked) # {})

\* ------------------------------------------------------------------------
\* C5: a step of a rule without variables whose body goals all hold yields
\* exactly the rule's one head tuple.
\* ------------------------------------------------------------------------
C5_GroundRuleStep ==
    \A k \in 1..Len(rules) :
        (rules[k].variables = <<>> /\ satisfies_all(<<>>, rules[k].sub_goals, DataSet))
            => RuleStep(rules[k], DataSet) = {make_tuple(rules[k].goal, <<>>)}

\* ------------------------------------------------------------------------
\* C3: a query with at least one variable returns one Answer per assignment
\* of interned constants to its variables that makes every goal a fact, and
\* no other Answer.
\* ------------------------------------------------------------------------
C3_QueryAnswers ==
    (QueryReturned /\ AtomsVars(asked) # {})
        => /\ Range(answers) = {Rendered(f) : f \in Satisfying(asked)}
           /\ Len(answers) = Cardinality(Satisfying(asked))

\* With p(a, b) in the fact base, p(X, b) returns the one answer {X = a}.
C3_Witness ==
    /\ QueryReturned
    /\ <<"p", <<"a", "b">>>> \in Display
    /\ asked = <<[rel |-> "p", terms |-> <<[kind |-> "Var", name |-> "X"],
                                           [kind |-> "Const", name |-> "b"]>>]>>
    /\ answers = <<{<<"X", "a">>}>>

\* ------------------------------------------------------------------------
\* C10: the answer list of query() holds no Answer twice.
\* ------------------------------------------------------------------------
C10_NoDuplicateAnswers ==
    QueryReturned
        => \A j, k \in 1..Len(answers) : j # k => answers[j] # answers[k]

\* The Counter handed a satisfying binding to the query more than once.
C10_Witness ==
    /\ QueryReturned
    /\ answers # <<>>
    /\ LET q == QueryNew(asked, DataSet).query
           cands == CounterItems(CounterNew(Len(q.variables), constants_count(DataSet)))
       IN \E j, k \in 1..Len(cands) :
              j < k /\ cands[j] = cands[k] /\ satisfies_all(cands[j], q.sub_goals, DataSet)

\* ------------------------------------------------------------------------
\* C6: run() terminates; a pass of its loop that is not the last one has
\* added at least one fact.
\* ------------------------------------------------------------------------
C6_RunTerminates ==
    /\ [][(pc = "step" /\ pc' = "run")
            => (SumLen(relations') > last_len' \/ SumLen(relations') = last_len')]_vars
    /\ (pc \in {"run", "step"}) ~> (pc = "idle")

\* run() is at its loop test after a pass that added facts.
C6_Witness == pc = "run" /\ i > 0 /\ len(DataSet) > last_len /\ last_len > 0

\* ------------------------------------------------------------------------
\* C7: run() called directly after run() returned takes no step and leaves
\* every relation as it is.
\* ------------------------------------------------------------------------
C7_RunIdempotent ==
    [][(pc = "run" /\ last = "run") => (pc' = "idle" /\ relations' = relations)]_vars

\* The second of two consecutive calls of run() is at its loop test, with
\* facts and a rule in the DataSet.
C7_Witness == pc = "run" /\ last = "run" /\ rules # <<>> /\ len(DataSet) > 0

\* ------------------------------------------------------------------------
\* C8: no step ever removes a tuple from a relation or removes a relation.
\* ------------------------------------------------------------------------
C8_FactsOnlyAdded ==
    [][/\ Len(relations') >= Len(relations)
       /\ \A r \in 1..Len(relations) : relations[r] \subseteq relations'[r]]_vars

\* Inside run(), a rule's step has added facts, and its head relation still
\* holds tuples that a step of the rule does not yield.
C8_Witness ==
    /\ pc = "step"
    /\ i > 0
    /\ len(DataSet) > last_len
    /\ relations[RuleRelation(rules[i]) + 1] # RuleStep(rules[i], DataSet)

\* ------------------------------------------------------------------------
\* C9: query() leaves every relation's tuples, the rules and last_len as
\* they are; it only appends names to the pools and empty relations.
\* ------------------------------------------------------------------------
C9_QueryFrame ==
    [][queries' # queries
        => /\ rules' = rules
           /\ last_len' = last_len
           /\ (SumLen(relations') # last_len') = (SumLen(relations) # last_len)
           /\ Len(relations') >= Len(relations)
           /\ \A r \in 1..Len(relations') :
                 relations'[r] = IF r <= Len(relations) THEN relations[r] ELSE {}
           /\ IsPrefix(relation_names, relation_names')
           /\ IsPrefix(constant_names, constant_names')
           /\ IsPrefix(variable_names, variable_names')]_vars

\* A query on a fact base that was not saturated returned no answer although
\* the least fixpoint has one; it interned a name and created a relation.
C9_Witness ==
    /\ QueryReturned
    /\ answers = <<>>
    /\ AtomsVars(asked) # {}
    /\ is_dirty(DataSet)
    /\ SatisfyingIn(asked, LeastFixpoint(Display, ProgramRules, Range(constant_names))) # {}
    /\ relations[Len(relations)] = {}
    /\ Len(variable_names) = 2

\* ------------------------------------------------------------------------
\* C11: a query with no goals, or with a goal that no assignment of interned
\* constants satisfies, returns an empty answer list.
\* ------------------------------------------------------------------------
C11_NoAnswers ==
    (QueryReturned
        /\ (asked = <<>> \/ \E k \in 1..Len(asked) : Satisfying(<<asked[k]>>) = {}))
        => answers = <<>>

\* A query of two goals on a fact base with facts: the first goal has a
\* satisfying assignment, the second has none.
C11_Witness ==
    /\ QueryReturned
    /\ Len(asked) = 2
    /\ AtomsVars(asked) # {}
    /\ Satisfying(<<asked[1]>>) # {}
    /\ Satisfying(<<asked[2]>>) = {}
    /\ answers = <<>>

\* ------------------------------------------------------------------------
\* C12: within one rule or query every variable name has exactly one slot
\* and distinct names have distinct slots, so every occurrence of a variable
\* is grounded with the same constant.
\* ------------------------------------------------------------------------
\* The k-th rule ingested, as written.
RuleStatement(k) == SelectSeq(statements, LAMBDA st : st.kind = "Rule")[k].rule

\* The places of the atoms where a variable stands: <<atom, term>>.
VarOccurrences(atoms) ==
    {o \in UNION {{<<j, m>> : m \in 1..Len(atoms[j].terms)} : j \in 1..Len(atoms)} :
        atoms[o[1]].terms[o[2]].kind = "Var"}

\* goals and variables are what atoms compile to: one slot per name, and
\* every candidate binding grounds equal names equally.
OneSlotPerName(atoms, goals, variables) ==
    /\ Len(goals) = Len(atoms)
    /\ Len(variables) = Cardinality(AtomsVars(atoms))
    /\ \A o \in VarOccurrences(atoms) :
          /\ goals[o[1]].terms[o[2]].kind = "Variable"
          /\ goals[o[1]].terms[o[2]].id \in 0..(Len(variables) - 1)
    /\ \A o1, o2 \in VarOccurrences(atoms) :
          (atoms[o1[1]].terms[o1[2]].name = atoms[o2[1]].terms[o2[2]].name)
              <=> (goals[o1[1]].terms[o1[2]].id = goals[o2[1]].terms[o2[2]].id)
    /\ \A b \in Range(CounterItems(CounterNew(Len(variables), Len(constant_names)))) :
          \A o1, o2 \in VarOccurrences(atoms) :
              (atoms[o1[1]].terms[o1[2]].name = atoms[o2[1]].terms[o2[2]].name)
                  => make_tuple(goals[o1[1]], b)[o1[2]] = make_tuple(goals[o2[1]], b)[o2[2]]

C12_OneSlotPerName ==
    \A k \in 1..Len(rules) :
        LET atoms == <<RuleStatement(k).head>> \o RuleStatement(k).clauses
            q == QueryNew(atoms, DataSet).query
        IN /\ OneSlotPerName(atoms, <<rules[k].goal>> \o rules[k].sub_goals,
                             rules[k].variables)
           /\ OneSlotPerName(atoms, q.sub_goals, q.variables)

\* A rule whose body goal has the same variable twice, on a relation holding
\* a tuple of two different constants and a tuple of two equal ones: only
\* the equal one satisfies the goal.
C12_Witness ==
    /\ Len(rules) = 1
    /\ Len(RuleStatement(1).clauses) = 1
    /\ LET atom == RuleStatement(1).clauses[1]
           goal == rules[1].sub_goals[1]
       IN /\ Len(atom.terms) = 2
          /\ atom.terms[1].kind = "Var"
          /\ atom.terms[2] = atom.terms[1]
          /\ relations[goal.relation + 1] = {<<0, 1>>, <<1, 1>>}
          /\ {b \in Range(CounterItems(CounterNew(Len(rules[1].variables),
                                                  Len(constant_names)))) :
                 is_satisfied_by(goal, b, DataSet)} = {<<1>>}

\* ------------------------------------------------------------------------
\* C13: after any sequence of add_name calls the pool holds the distinct
\* strings in first-seen order, so ids are dense, distinct per string and
\* never change; a call with a string seen before returns its id and leaves
\* the pool alone, a call with a new string returns the previous length.
\* ------------------------------------------------------------------------
\* The distinct elements of a sequence in the order of their first
\* occurrence.
RECURSIVE FirstSeen(_)
FirstSeen(seq) ==
    IF seq = <<>> THEN <<>>
    ELSE LET before == FirstSeen(SubSeq(seq, 1, Len(seq) - 1))
             x == seq[Len(seq)]
         IN IF x \in Range(before) THEN before ELSE Append(before, x)

C13_Interning ==
    /\ pool = FirstSeen(interned)
    /\ interned # <<>> =>
          LET before == FirstSeen(SubSeq(interned, 1, Len(interned) - 1))
              name == interned[Len(interned)]
          IN IF name \in Range(before)
             THEN pool = before /\ before[id + 1] = name
             ELSE id = Len(before) /\ pool = Append(before, name)

\* A string interned again after another string came in between: it keeps
\* id 0 and the pool keeps its two names.
C13_Witness ==
    /\ Len(interned) = 3
    /\ interned[1] = interned[3]
    /\ interned[2] # interned[1]
    /\ id = 0
    /\ Len(pool) = 2

\* ------------------------------------------------------------------------
\* C14: every relation name a fact, rule or query refers to for the first
\* time gets one relation, empty until a fact puts its tuple in; a name
\* known already gets none; there are always as many relations as interned
\* relation names.
\* ------------------------------------------------------------------------
AtomsRels(atoms) == {atoms[k].rel : k \in 1..Len(atoms)}

\* The relation names the statements ingested so far refer to.
StatementsRels ==
    UNION {IF statements[k].kind = "Fact"
           THEN {statements[k].fact.rel}
           ELSE {statements[k].rule.head.rel} \cup AtomsRels(statements[k].rule.clauses) :
              k \in 1..Len(statements)}

C14_LazyRelations ==
    [][/\ Len(relations') = Len(relation_names')
       /\ IsPrefix(relation_names, relation_names')
       /\ Cardinality(Range(relation_names')) = Len(relation_names')
       /\ Range(relation_names') =
             Range(relation_names)
                \cup (IF Len(statements') > Len(statements)
                      THEN StatementsRels' \ StatementsRels
                      ELSE IF queries' > queries THEN AtomsRels(asked') ELSE {})
       /\ \A r \in (Len(relations) + 1)..Len(relations') :
             IF Len(statements') > Len(statements)
                /\ statements'[Len(statements')].kind = "Fact"
             THEN Cardinality(relations'[r]) = 1
             ELSE relations'[r] = {}
      ]_vars

\* A query names a relation that no statement named: it got an empty
\* relation, next to the relation of the facts.
C14_Witness ==
    /\ QueryReturned
    /\ Len(asked) = 1
    /\ StatementsRels = {relation_names[1]}
    /\ Len(relation_names) = 2
    /\ asked[1].rel = relation_names[2]
    /\ relations[1] # {}
    /\ relations[2] = {}

\* ------------------------------------------------------------------------
\* C15: facts of one relation name with different numbers of terms are all
\* stored, each with its own length, and a goal is matched only by the
\* stored tuples that have as many terms as the goal.
\* ------------------------------------------------------------------------
C15_ArityUnchecked ==
    /\ ProgramFacts \subseteq Display
    /\ (QueryReturned /\ answers # <<>>) =>
          \A k \in 1..Len(asked) :
              \E f \in ProgramFacts :
                  f[1] = asked[k].rel /\ Len(f[2]) = Len(asked[k].terms)

\* One relation holds a tuple of one term and a tuple of two; a goal of one
\* variable gets the one answer of the shorter tuple.
C15_Witness ==
    /\ QueryReturned
    /\ Len(relations) = 1
    /\ {Len(t) : t \in relations[1]} = {1, 2}
    /\ Len(asked) = 1
    /\ Len(asked[1].terms) = 1
    /\ asked[1].terms[1].kind = "Var"
    /\ Len(answers) = 1

\* ------------------------------------------------------------------------
\* C16: the vectors Counter::new(length, max) has produced when next()
\* returns None are, as a set, all vectors of that length with entries in
\* 0..max-1 when length and max are at least 1, and none otherwise.
\* ------------------------------------------------------------------------
\* All vectors of the given length with every entry in 0..max-1.
Vectors(length, max) == [1..length -> 0..(max - 1)]

C16_AllVectors ==
    CounterIsEmpty(counter) =>
        Range(produced) = IF counter.length >= 1 /\ counter.max >= 1
                          THEN Vectors(counter.length, counter.max)
                          ELSE {}

\* Counter::new(3, 4) exhausted: 64 distinct vectors, [3, 3, 3] among them.
C16_Witness ==
    /\ counter.length = 3
    /\ counter.max = 4
    /\ CounterIsEmpty(counter)
    /\ Cardinality(Range(produced)) = 64
    /\ <<3, 3, 3>> \in Range(produced)
    /\ <<0, 0, 4>> \notin Range(produced)

\* ------------------------------------------------------------------------
\* C17: Counter::new(length, max) produces every vector once: max^length
\* vectors, no vector twice.
\* ------------------------------------------------------------------------
C17_EachOnce ==
    /\ \A j, k \in 1..Len(produced) : produced[j] = produced[k] => j = k
    /\ CounterIsEmpty(counter) /\ counter.length >= 1
          => Len(produced) = Pow(counter.max, counter.length)

\* ------------------------------------------------------------------------
\* C18: for a rule with at least one variable, Rule::step returns the set of
\* the head tuples of all assignments of interned constants to the rule's
\* variables that satisfy every body goal, those already in the head
\* relation included.
\* ------------------------------------------------------------------------
\* The named facts that the tuples ts of the relation with id rel stand for.
Named(rel, ts) ==
    {<<relation_names[rel + 1], [k \in 1..Len(t) |-> constant_names[t[k] + 1]]>> : t \in ts}

C18_RuleStep ==
    \A k \in 1..Len(rules) :
        rules[k].variables # <<>> =>
            LET ts == RuleStep(rules[k], DataSet)
            IN /\ Named(RuleRelation(rules[k]), ts)
                    = Consequences(RuleStatement(k), Display, Range(constant_names))
               /\ Cardinality(ts)
                    = Cardinality(Consequences(RuleStatement(k), Display,
                                               Range(constant_names)))

\* p(a). p(b). q(X) :- p(X). in this order: the step of the rule returns
\* {[0], [1]}.
C18_Witness ==
    /\ Len(rules) = 1
    /\ RuleStatement(1) = [head |-> [rel |-> "q", terms |-> <<[kind |-> "Var", name |-> "X"]>>],
                           clauses |-> <<[rel |-> "p",
                                          terms |-> <<[kind |-> "Var", name |-> "X"]>>]>>]
    /\ Display = {<<"p", <<"a">>>>, <<"p", <<"b">>>>}
    /\ RuleStep(rules[1], DataSet) = {<<0>>, <<1>>}

\* ------------------------------------------------------------------------
\* C19: a pass of run() applies the rules in declaration order, and each
\* rule is evaluated on the fact base that the rules before it in the same
\* pass have extended already.
\* ------------------------------------------------------------------------
\* The rules ingested so far, as written, in declaration order.
RuleStatements ==
    [k \in 1..Len(SelectSeq(statements, LAMBDA st : st.kind = "Rule")) |-> RuleStatement(k)]

\* The named facts after the rules rs were applied to F one after the other,
\* each to the result of the one before; a rule without variables has no
\* candidate binding and adds nothing.
RECURSIVE InPlacePass(_, _, _)
InPlacePass(F, rs, C) ==
    IF rs = <<>> THEN F
    ELSE InPlacePass(F \cup (IF AtomVars(Head(rs).head) \cup AtomsVars(Head(rs).clauses) = {}
                             THEN {}
                             ELSE Consequences(Head(rs), F, C)),
                     Tail(rs), C)

\* The caller is in the first pass of the first run() of the program.
FirstPass == pc = "step" /\ runs = 1 /\ last_len = Cardinality(ProgramFacts)

C19_InPlaceInOrder ==
    /\ [](FirstPass =>
            Display = InPlacePass(ProgramFacts, SubSeq(RuleStatements, 1, i),
                                  Range(constant_names)))
    /\ [][(pc = "step" /\ i' = i + 1) =>
            Display' = InPlacePass(Display, <<RuleStatement(i + 1)>>, Range(constant_names))
         ]_vars

\* p(a). q(X) :- p(X). r(X) :- q(X). at the end of the first pass: q(a) and
\* r(a) are both derived.
C19_Witness ==
    /\ FirstPass
    /\ i = 2
    /\ ProgramFacts = {<<"p", <<"a">>>>}
    /\ RuleStatement(1).head.rel = "q"
    /\ RuleStatement(2).clauses = <<RuleStatement(1).head>>
    /\ RuleStatement(2).head.rel = "r"
    /\ Display = {<<"p", <<"a">>>>, <<"q", <<"a">>>>, <<"r", <<"a">>>>}

\* ------------------------------------------------------------------------
\* C20: when run() returns after a program was ingested into an empty
\* DataSet, the relations are those that the same loop reaches when every
\* pass evaluates all rules on the relations as they were when the pass
\* began.
\* ------------------------------------------------------------------------
\* The DataSet that ingesting the statements into DataSet::default() gives.
RECURSIVE Ingest(_)
Ingest(sts) ==
    IF sts = <<>>
    THEN [last_len |-> 0, rules |-> <<>>, relation_names |-> <<>>,
          constant_names |-> <<>>, variable_names |-> <<>>, relations |-> <<>>]
    ELSE LET d == Ingest(SubSeq(sts, 1, Len(sts) - 1))
             st == sts[Len(sts)]
         IN IF st.kind = "Fact" THEN fact(d, st.fact) ELSE rule(d, st.rule)

\* A pass that evaluates every rule on d and only then extends the relations.
SnapshotPass(d) ==
    [d EXCEPT !.relations =
        [r \in 1..Len(d.relations) |->
            d.relations[r]
                \cup UNION {RuleStep(d.rules[k], d) :
                               k \in {j \in 1..Len(d.rules) :
                                         RuleRelation(d.rules[j]) + 1 = r}}]]

\* The loop of run() with SnapshotPass as its body.
RECURSIVE SnapshotRun(_)
SnapshotRun(d) ==
    IF ~is_dirty(d) THEN d
    ELSE SnapshotRun(SnapshotPass([d EXCEPT !.last_len = len(d)]))

\* One pass as DataSet::step makes it, from the rule with index idx on.
RECURSIVE InPlaceStep(_, _)
InPlaceStep(d, idx) ==
    IF idx = Len(d.rules) THEN d ELSE InPlaceStep(step_rule(d, idx), idx + 1)

C20_SnapshotSameResult ==
    (RunReturned /\ runs = 1) => relations = SnapshotRun(Ingest(statements)).relations

\* A program of two rules that one in-place pass saturates and one snapshot
\* pass does not.
C20_Witness ==
    /\ RunReturned
    /\ runs = 1
    /\ Len(rules) = 2
    /\ relations = InPlaceStep(Ingest(statements), 0).relations
    /\ relations # SnapshotPass(Ingest(statements)).relations
    /\ relations = SnapshotRun(Ingest(statements)).relations

\* ------------------------------------------------------------------------
\* C21: every id that program(), run(), query() and rendering look up is in
\* range: constant ids in stored tuples and goals, relation ids of goals,
\* variable slots of goals within the bindings they are evaluated with, and
\* the variable ids of a rule's or query's variables.
\* ------------------------------------------------------------------------
\* The ids of a compiled goal are in range for a Binding of the given
\* variables.
GoalInRange(goal, variables) ==
    /\ goal.relation < Len(relations)
    /\ \A k \in 1..Len(goal.terms) :
          IF goal.terms[k].kind = "Constant"
          THEN goal.terms[k].id < Len(constant_names)
          ELSE goal.terms[k].id < Len(variables)

\* What a rule or query compiled to is in range, and so is every candidate
\* binding it is evaluated with.
CompiledInRange(goals, variables) ==
    /\ \A k \in 1..Len(goals) : GoalInRange(goals[k], variables)
    /\ \A k \in 1..Len(variables) : variables[k] < Len(variable_names)
    /\ \A b \in Range(CounterItems(CounterNew(Len(variables), Len(constant_names)))) :
          /\ Len(b) = Len(variables)
          /\ \A k \in 1..Len(b) : b[k] < Len(constant_names)

C21_IdsInRange ==
    /\ Len(relations) = Len(relation_names)
    /\ \A r \in 1..Len(relations) :
          \A t \in relations[r] : \A k \in 1..Len(t) : t[k] < Len(constant_names)
    /\ \A k \in 1..Len(rules) :
          CompiledInRange(<<rules[k].goal>> \o rules[k].sub_goals, rules[k].variables)
    /\ QueryReturned =>
          LET q == QueryNew(asked, DataSet).query
          IN CompiledInRange(q.sub_goals, q.variables)

\* In the middle of a pass of run(), after a query: a rule whose head and
\* body have different variables, two constants, a derived tuple stored.
C21_Witness ==
    /\ pc = "step"
    /\ i = 1
    /\ queries = 1
    /\ Len(rules[1].variables) = 2
    /\ Len(constant_names) = 2
    /\ Display \ ProgramFacts # {}

\* ------------------------------------------------------------------------
\* C22: the k-th vector the Counter produces, counting from 0, has
\* floor(k / max^i) mod max as its entry i, slot 0 being the fastest digit;
\* after next() returned None it returns None on every later call.
\* ------------------------------------------------------------------------
C22_MixedRadix ==
    /\ \A k \in 1..Len(produced) :
          /\ Len(produced[k]) = counter.length
          /\ \A n \in 1..counter.length :
                produced[k][n] = ((k - 1) \div Pow(counter.max, n - 1)) % counter.max
    /\ nones > 0 => ~CounterNext(counter).some

\* Counter::new(2, 3) after [0,0], [1,0], [2,0], [0,1].
C22_Witness ==
    /\ counter.length = 2
    /\ counter.max = 3
    /\ produced = <<<<0, 0>>, <<1, 0>>, <<2, 0>>, <<0, 1>>>>

\* ------------------------------------------------------------------------
\* C23: a rule's slots go to its distinct variables in the order of their
\* first appearance, head first and then the body from left to right, and
\* slot i of the rule's variables holds the variable-pool id of the i-th of
\* them.
\* ------------------------------------------------------------------------
\* The variable names of the atoms, one per occurrence, in reading order.
RECURSIVE VarNames(_)
VarNames(atoms) ==
    IF atoms = <<>> THEN <<>>
    ELSE LET vs == SelectSeq(Head(atoms).terms, LAMBDA t : t.kind = "Var")
         IN [k \in 1..Len(vs) |-> vs[k].name] \o VarNames(Tail(atoms))

C23_SlotsInOrder ==
    \A k \in 1..Len(rules) :
        LET atoms == <<RuleStatement(k).head>> \o RuleStatement(k).clauses
            goals == <<rules[k].goal>> \o rules[k].sub_goals
            names == FirstSeen(VarNames(atoms))
        IN /\ Len(rules[k].variables) = Len(names)
           /\ \A o \in VarOccurrences(atoms) :
                 names[goals[o[1]].terms[o[2]].id + 1] = atoms[o[1]].terms[o[2]].name
           /\ \A n \in 1..Len(names) :
                 /\ rules[k].variables[n] < Len(variable_names)
                 /\ variable_names[rules[k].variables[n] + 1] = names[n]

\* A rule with Y in the head and X in the body, built after a query interned
\* X: slot 0 is Y with pool id 1, slot 1 is X with pool id 0.
C23_Witness ==
    /\ Len(rules) = 1
    /\ variable_names = <<"X", "Y">>
    /\ AtomVars(RuleStatement(1).head) = {"Y"}
    /\ AtomsVars(RuleStatement(1).clauses) = {"X"}
    /\ rules[1].variables = <<1, 0>>

\* ------------------------------------------------------------------------
\* C24: the named facts after program() into an empty DataSet and run() are
\* the same for every order of the program's statements.
\* ------------------------------------------------------------------------
\* What Display prints for the DataSet d, as a set of named facts.
DisplayOf(d) ==
    UNION {{<<d.relation_names[r], [k \in 1..Len(t) |-> d.constant_names[t[k] + 1]]>> :
                t \in d.relations[r]} : r \in 1..Len(d.relations)}

\* The DataSet that run() on d returns with.
RECURSIVE RunAll(_)
RunAll(d) ==
    IF ~is_dirty(d) THEN d
    ELSE RunAll(InPlaceStep([d EXCEPT !.last_len = len(d)], 0))

\* Every reordering of a sequence.
Reorderings(seq) ==
    {[k \in 1..Len(seq) |-> seq[f[k]]] :
        f \in {g \in [1..Len(seq) -> 1..Len(seq)] :
                  \A j, k \in 1..Len(seq) : g[j] = g[k] => j = k}}

C24_OrderIndependent ==
    (RunReturned /\ runs = 1) =>
        \A sts \in Reorderings(statements) : DisplayOf(RunAll(Ingest(sts))) = Display

\* A program of two facts and two rules with derived facts, whose reversal
\* interns the relation names in another order.
C24_Witness ==
    /\ RunReturned
    /\ runs = 1
    /\ Len(statements) = 4
    /\ Len(rules) = 2
    /\ Display # ProgramFacts
    /\ Ingest([k \in 1..4 |-> statements[5 - k]]).relation_names # relation_names
    /\ DisplayOf(RunAll(Ingest([k \in 1..4 |-> statements[5 - k]]))) = Display

\* ------------------------------------------------------------------------
\* C25: every step stores only the fact it ingests or head facts of ingested
\* rules under an assignment whose body goals are all in the fact base at
\* that moment; so every stored fact is in the least fixpoint of the
\* ingested facts under the ingested rules.
\* ------------------------------------------------------------------------
C25_Sound ==
    /\ [](Display \subseteq
            LeastFixpoint(ProgramFacts, ProgramRules, Range(constant_names)))
    /\ [][\A f \in Display' \ Display :
            \/ f \in ProgramFacts' \ ProgramFacts
            \/ \E r \in ProgramRules :
                  f \in Consequences(r, Display, Range(constant_names))
         ]_vars

\* Inside the second pass of a run() that was called after a query: a fact
\* base larger than the ingested facts.
C25_Witness ==
    /\ pc = "step"
    /\ i = 1
    /\ queries = 1
    /\ last_len > Cardinality(ProgramFacts)
    /\ Display \ ProgramFacts # {}

====
